---- MODULE Spec2Model ----
(***************************************************************************)
(* vm-monitor API: the HMAC authentication gate (app/security.py) and the  *)
(* handlers that feed and use it (app/main.py).                            *)
(*                                                                         *)
(* Text is a sequence of code points (ASCII), bytes are 0..255. The server *)
(* clock counts ticks of 1/TicksPerSecond second, so that datetime.now()   *)
(* can fall between two whole seconds.                                     *)
(***************************************************************************)
EXTENDS Integers, Sequences, FiniteSets, TLC

VARIABLES
    AGENT_API_KEYS,   \* security.AGENT_API_KEYS: a function, instance id text -> secret
    db_agents,        \* main.db_agents: a function, UUID -> StoredAgent
    db_metrics,       \* main.db_metrics: a function, UUID -> list of batches
    clock,            \* the server clock, in ticks
    check,            \* the authentication check in flight (authenticate_agent)
    peer,             \* a second check, in flight at the same time
    response,         \* what the endpoint handlers answered to either request
    captured,         \* a request an eavesdropper saw authenticated
    call,             \* the last direct call of verify_hmac_signature
    call2             \* the same call with one argument changed

vars == <<AGENT_API_KEYS, db_agents, db_metrics, clock, check, peer, response,
          captured, call, call2>>

----------------------------------------------------------------------------
(* Bounds of the model *)

\* clock resolution: ticks per second (datetime has microseconds)
TicksPerSecond == 2
\* the clock is observed up to this many seconds past the validity window
SecondsPastWindow == 1
\* decimal literals of at most this many digits are evaluated as integers
MaxValueDigits == 9
\* an instance stores at most this many metrics batches
MaxBatches == 2

(* Program constants *)

TIMESTAMP_VALIDITY_SECONDS == 300
\* block size of SHA-256: HMAC pads the key with zero bytes to this length
HmacBlockSize == 64
\* the separator of the message to sign
LF == 10

----------------------------------------------------------------------------
(* Text helpers *)

RECURSIVE StripLeft(_)
StripLeft(s) ==
    IF s # <<>> /\ s[1] \in {9, 10, 11, 12, 13, 28, 29, 30, 31, 32}
    THEN StripLeft(Tail(s)) ELSE s

RECURSIVE StripRight(_)
StripRight(s) ==
    IF s # <<>> /\ s[Len(s)] \in {9, 10, 11, 12, 13, 28, 29, 30, 31, 32}
    THEN StripRight(SubSeq(s, 1, Len(s) - 1)) ELSE s

IsDigit(c) == c \in 48..57

\* str.upper() on ASCII text
Upper(s) == [i \in DOMAIN s |-> IF s[i] \in 97..122 THEN s[i] - 32 ELSE s[i]]

\* bytes.decode('utf-8'): ASCII bytes decode to themselves; a byte that starts
\* no valid sequence raises UnicodeDecodeError. (Multi-byte sequences are
\* outside the byte values the model sends.)
Utf8Valid(bytes) == \A i \in DOMAIN bytes : bytes[i] < 128
Utf8Decode(bytes) == [i \in DOMAIN bytes |-> bytes[i]]
\* str.encode('utf-8') on ASCII text
Utf8Encode(text) == [i \in DOMAIN text |-> text[i]]

----------------------------------------------------------------------------
(* int(timestamp_str) and datetime.fromtimestamp(..., timezone.utc) *)

RECURSIVE DropUnderscores(_)
DropUnderscores(s) ==
    IF s = <<>> THEN <<>>
    ELSE IF s[1] = 95 THEN DropUnderscores(Tail(s))
    ELSE <<s[1] - 48>> \o DropUnderscores(Tail(s))

RECURSIVE DropLeadingZeros(_)
DropLeadingZeros(d) ==
    IF Len(d) > 1 /\ d[1] = 0 THEN DropLeadingZeros(Tail(d)) ELSE d

\* the digits part of a Python integer literal: digits, single underscores
\* only between digits
DigitsOk(b) ==
    /\ b # <<>>
    /\ IsDigit(b[1]) /\ IsDigit(b[Len(b)])
    /\ \A i \in DOMAIN b : IsDigit(b[i]) \/ b[i] = 95
    /\ \A i \in 1..(Len(b) - 1) : ~(b[i] = 95 /\ b[i + 1] = 95)

\* int(s): ok = FALSE is ValueError; otherwise sign and decimal digits
IntLiteral(s) ==
    LET t == StripRight(StripLeft(s))
        signed == t # <<>> /\ t[1] \in {43, 45}
        b == IF signed THEN Tail(t) ELSE t
    IN  IF DigitsOk(b)
        THEN [ok |-> TRUE, neg |-> signed /\ t[1] = 45,
              digits |-> DropLeadingZeros(DropUnderscores(b))]
        ELSE [ok |-> FALSE, neg |-> FALSE, digits |-> <<>>]

RECURSIVE DigitsValue(_)
DigitsValue(d) ==
    IF d = <<>> THEN 0 ELSE DigitsValue(SubSeq(d, 1, Len(d) - 1)) * 10 + d[Len(d)]

RECURSIVE LexLeq(_, _)
LexLeq(a, b) ==
    IF a = <<>> THEN TRUE
    ELSE IF a[1] # b[1] THEN a[1] < b[1]
    ELSE LexLeq(Tail(a), Tail(b))

\* a <= b for two digit sequences without leading zeros
DigitsLeq(a, b) == Len(a) < Len(b) \/ (Len(a) = Len(b) /\ LexLeq(a, b))

\* datetime.max and datetime.min as timestamps: 9999-12-31T23:59:59, 0001-01-01
MaxDatetimeTs == <<2,5,3,4,0,2,3,0,0,7,9,9>>
MinDatetimeTsAbs == <<6,2,1,3,5,5,9,6,8,0,0>>
\* beyond these the C library cannot convert the value (year overflows an int):
\* OSError, or OverflowError once the value exceeds time_t
MaxGmtimeTs == <<6,7,7,6,8,0,3,6,1,9,1,6,7,6,7,9,9>>
MinGmtimeTsAbs == <<6,7,7,6,8,0,4,0,6,0,9,7,4,0,8,0,0>>

\* datetime.fromtimestamp(int(s), timezone.utc):
\* "ok", "ValueError" (year out of range), or "OverflowError" (not a ValueError)
FromTimestamp(lit) ==
    IF DigitsLeq(lit.digits, IF lit.neg THEN MinDatetimeTsAbs ELSE MaxDatetimeTs)
    THEN "ok"
    ELSE IF DigitsLeq(lit.digits, IF lit.neg THEN MinGmtimeTsAbs ELSE MaxGmtimeTs)
    THEN "ValueError"
    ELSE "OverflowError"

\* the integer a literal denotes (literals of at most MaxValueDigits digits)
LiteralValue(lit) ==
    IF lit.neg THEN 0 - DigitsValue(lit.digits) ELSE DigitsValue(lit.digits)

----------------------------------------------------------------------------
(* hmac.new(key, msg, sha256).digest() and base64.b64encode *)

\* HMAC (RFC 2104) pads a key of at most one block with zero bytes to the
\* block size; a longer key is replaced by its hash first.
HmacKey(key) ==
    IF Len(key) <= HmacBlockSize
    THEN [hashed |-> FALSE,
          bytes |-> key \o [i \in 1..(HmacBlockSize - Len(key)) |-> 0]]
    ELSE [hashed |-> TRUE, bytes |-> key]

\* The MAC as an ideal function: two MACs are equal exactly when the padded
\* keys and the messages are.
HmacSha256(key, msg) == [key |-> HmacKey(key), msg |-> msg]

NoMac == [key |-> [hashed |-> FALSE, bytes |-> <<>>], msg |-> <<>>]

\* Header text: either the base64 text of a MAC (b64of) or other text (raw).
B64Encode(mac) == [b64of |-> mac, raw |-> <<>>]
OtherText(t) == [b64of |-> NoMac, raw |-> t]

\* a comparison of the lengths only: any two base64 texts of MACs are equal
M_CompareDigest_SameLength(a, b) ==
    \/ a = b
    \/ a.raw = <<>> /\ b.raw = <<>> /\ a.b64of # NoMac /\ b.b64of # NoMac

\* hmac.compare_digest(a, b): equality of the two byte strings
CompareDigest(a, b) == a = b

\* the message to sign, security.py line 46
MessageToSign(timestamp_str, method, path, body_str) ==
    timestamp_str \o <<LF>> \o method \o <<LF>> \o path \o <<LF>> \o body_str

\* what an agent holding `secret` puts in X-Request-Signature
Sign(secret, timestamp_str, method, path, body_bytes) ==
    B64Encode(HmacSha256(Utf8Encode(secret),
        Utf8Encode(MessageToSign(timestamp_str, Upper(method), path,
                                 Utf8Decode(body_bytes)))))

----------------------------------------------------------------------------
(* verify_hmac_signature *)

\* a window check that also rejects a timestamp exactly 300 s away
M_WindowExceeded_Inclusive(lit, now) ==
    IF Len(lit.digits) > MaxValueDigits THEN TRUE
    ELSE LET d == now - LiteralValue(lit) * TicksPerSecond
             absd == IF d < 0 THEN 0 - d ELSE d
         IN  absd >= TIMESTAMP_VALIDITY_SECONDS * TicksPerSecond

\* a window check without abs(): only timestamps in the future are rejected
M_WindowExceeded_FutureOnly(lit, now) ==
    IF Len(lit.digits) > MaxValueDigits THEN TRUE
    ELSE LiteralValue(lit) * TicksPerSecond - now
             > TIMESTAMP_VALIDITY_SECONDS * TicksPerSecond

\* abs((current_time - request_timestamp).total_seconds()) > 300.
\* A literal of more than MaxValueDigits digits is further from every clock
\* value of the model than the window.
WindowExceeded(lit, now) ==
    IF Len(lit.digits) > MaxValueDigits THEN TRUE
    ELSE LET d == now - LiteralValue(lit) * TicksPerSecond
             absd == IF d < 0 THEN 0 - d ELSE d
         IN  absd > TIMESTAMP_VALIDITY_SECONDS * TicksPerSecond

\* a timestamp check of the format only
M_TimestampCheck_NoExpiry(timestamp_str, now) ==
    LET lit == IntLiteral(timestamp_str)
        conv == IF lit.ok THEN FromTimestamp(lit) ELSE "ValueError"
    IN  IF conv = "ValueError" THEN "invalid"
        ELSE IF conv = "OverflowError" THEN "OverflowError"
        ELSE "ok"

\* lines 25-34: "invalid" (ValueError caught), "expired", "ok", or
\* "OverflowError" (raised by fromtimestamp and not caught)
TimestampCheck(timestamp_str, now) ==
    LET lit == IntLiteral(timestamp_str)
        conv == IF lit.ok THEN FromTimestamp(lit) ELSE "ValueError"
    IN  IF conv = "ValueError" THEN "invalid"
        ELSE IF conv = "OverflowError" THEN "OverflowError"
        ELSE IF WindowExceeded(lit, now) THEN "expired"
        ELSE "ok"

\* a signature over the method as received, not upper-cased
M_ExpectedSignature_NoUpper(api_key_secret, timestamp_str, method, path, body_bytes) ==
    B64Encode(HmacSha256(Utf8Encode(api_key_secret),
        Utf8Encode(MessageToSign(timestamp_str, method, path,
                                 Utf8Decode(body_bytes)))))

\* a signature over the parsed timestamp, str(int(timestamp_str)), instead of
\* the text received
M_ExpectedSignature_ParsedTimestamp(api_key_secret, timestamp_str, method, path, body_bytes) ==
    LET lit == IntLiteral(timestamp_str)
        text == (IF lit.neg THEN <<45>> ELSE <<>>)
                    \o [i \in DOMAIN lit.digits |-> lit.digits[i] + 48]
    IN  B64Encode(HmacSha256(Utf8Encode(api_key_secret),
            Utf8Encode(MessageToSign(text, Upper(method), path,
                                     Utf8Decode(body_bytes)))))

\* lines 36-52: expected_signature_base64
ExpectedSignature(api_key_secret, timestamp_str, method, path, body_bytes) ==
    B64Encode(HmacSha256(Utf8Encode(api_key_secret),
        Utf8Encode(MessageToSign(timestamp_str, Upper(method), path,
                                 Utf8Decode(body_bytes)))))

\* ret: "True", "False", or "raise" with the exception in exc.
\* log: what the function prints. ran: the steps it reached.
Verdict(ret, exc, log, ran) == [ret |-> ret, exc |-> exc, log |-> log, ran |-> ran]

\* a verification that compares the signature before it looks at the timestamp
M_verify_signature_first(api_key_secret, timestamp_str, signature_from_request, method, path, body_bytes, now) ==
    LET t == TimestampCheck(timestamp_str, now)
    IN  IF ~Utf8Valid(body_bytes)
        THEN Verdict("raise", "UnicodeDecodeError", <<>>, {})
        ELSE IF ~CompareDigest(ExpectedSignature(api_key_secret, timestamp_str,
                                   method, path, body_bytes),
                               signature_from_request)
        THEN Verdict("False", "", <<>>, {"hmac", "compare"})
        ELSE IF t = "invalid"
        THEN Verdict("False", "", <<"Invalid timestamp format">>,
                     {"hmac", "compare", "parse"})
        ELSE IF t = "OverflowError"
        THEN Verdict("raise", "OverflowError", <<>>, {"hmac", "compare", "parse"})
        ELSE IF t = "expired"
        THEN Verdict("False", "", <<"Timestamp validation failed">>,
                     {"hmac", "compare", "parse", "window"})
        ELSE Verdict("True", "", <<>>, {"hmac", "compare", "parse", "window"})

verify_hmac_signature(api_key_secret, timestamp_str, signature_from_request, method, path, body_bytes, now) ==
    LET t == TimestampCheck(timestamp_str, now)
    IN  IF t = "invalid"
        THEN Verdict("False", "", <<"Invalid timestamp format">>, {"parse"})
        ELSE IF t = "OverflowError"
        THEN Verdict("raise", "OverflowError", <<>>, {"parse"})
        ELSE IF t = "expired"
        THEN Verdict("False", "", <<"Timestamp validation failed">>,
                     {"parse", "window"})
        ELSE IF ~Utf8Valid(body_bytes)
        THEN Verdict("raise", "UnicodeDecodeError", <<>>, {"parse", "window"})
        ELSE Verdict(IF CompareDigest(ExpectedSignature(api_key_secret,
                                          timestamp_str, method, path, body_bytes),
                                      signature_from_request)
                     THEN "True" ELSE "False",
                     "", <<>>, {"parse", "window", "hmac", "compare"})

----------------------------------------------------------------------------
(* Requests and responses *)

\* uuid.UUID values, and str(uuid): the canonical text ("a", "b")
Uuids == {1, 2}
UuidStr(u) == <<96 + u>>

\* the header names of authenticate_agent
HeaderNames == {"X-Instance-Id", "X-Request-Timestamp", "X-Request-Signature"}

\* A protected request. missing: the required headers that were not sent (the
\* field of a missing header carries no information).
Request(missing, id, ts, sig, method, path, body) ==
    [missing |-> missing, x_instance_id |-> id, x_request_timestamp |-> ts,
     x_request_signature |-> sig, method |-> method, path |-> path,
     body |-> body]

NoRequest == Request({}, <<>>, <<>>, OtherText(<<>>), <<>>, <<>>, <<>>)

\* What a check ends in. kind: "return" (the dict of line 104),
\* "HTTPException", "RequestValidationError" (a required header is missing:
\* FastAPI answers 422 and does not call the dependency), "unhandled" (an
\* exception nobody catches: 500), "none" (no verdict yet).
Outcome(kind, status, detail, headers, id, body) ==
    [kind |-> kind, status_code |-> status, detail |-> detail,
     headers |-> headers, instance_id |-> id, raw_body_bytes |-> body]

NoOutcome == Outcome("none", 0, "", {}, <<>>, <<>>)

\* lines 77-80
UnknownInstance ==
    Outcome("HTTPException", 401,
            "Invalid instance ID or agent not registered with an API key.",
            {}, <<>>, <<>>)
\* lines 94-98
InvalidSignatureOrTimestamp ==
    Outcome("HTTPException", 401, "Invalid signature or timestamp.",
            {<<"WWW-Authenticate", "Signature">>}, <<>>, <<>>)
\* line 104
Authenticated(id, body) == Outcome("return", 200, "", {}, id, body)
\* Header(...): a required header
MissingHeader == Outcome("RequestValidationError", 422, "", {}, <<>>, <<>>)
Unhandled(exc) == Outcome("unhandled", 500, exc, {}, <<>>, <<>>)

\* The state of one run of authenticate_agent. pc: "idle", "body" (suspended
\* in `await request.body()`, line 84) or "done". secret: agent_secret_key.
\* now: current_time of line 28, in ticks (-1: never read). replay: whether
\* the request is the eavesdropper's resend.
Check(pc, req, secret, now, outcome, log, ran, replay) ==
    [pc |-> pc, req |-> req, secret |-> secret, now |-> now,
     outcome |-> outcome, log |-> log, ran |-> ran, replay |-> replay]

IdleCheck == Check("idle", NoRequest, <<>>, 0 - 1, NoOutcome, <<>>, {}, FALSE)

----------------------------------------------------------------------------
(* authenticate_agent *)

\* d[k] = v
Put(d, k, v) == [x \in DOMAIN d \cup {k} |-> IF x = k THEN v ELSE d[x]]

\* a lookup without `if not agent_secret_key`: an unknown instance goes on
\* with an empty secret
M_AuthenticateLookup_NoKeyCheck(req, keys, replay) ==
    IF req.missing # {}
    THEN Check("done", req, <<>>, 0 - 1, MissingHeader, <<>>, {}, replay)
    ELSE Check("body", req,
               IF req.x_instance_id \in DOMAIN keys THEN keys[req.x_instance_id]
               ELSE <<>>,
               0 - 1, NoOutcome, <<>>, {"lookup"}, replay)

\* headers declared optional, Header(""): a missing header is an empty one
M_AuthenticateLookup_OptionalHeaders(req, keys, replay) ==
    IF ~(req.x_instance_id \in DOMAIN keys) \/ keys[req.x_instance_id] = <<>>
    THEN Check("done", req, <<>>, 0 - 1, UnknownInstance,
               <<"No API key found for instance_id">>, {"lookup"}, replay)
    ELSE Check("body", req, keys[req.x_instance_id], 0 - 1, NoOutcome, <<>>,
               {"lookup"}, replay)

\* lines 73-80, from the arrival of the request to `await request.body()`:
\* the required headers, then AGENT_API_KEYS.get and `if not agent_secret_key`
AuthenticateLookup(req, keys, replay) ==
    IF req.missing # {}
    THEN Check("done", req, <<>>, 0 - 1, MissingHeader, <<>>, {}, replay)
    ELSE IF ~(req.x_instance_id \in DOMAIN keys) \/ keys[req.x_instance_id] = <<>>
    THEN Check("done", req, <<>>, 0 - 1, UnknownInstance,
               <<"No API key found for instance_id">>, {"lookup"}, replay)
    ELSE Check("body", req, keys[req.x_instance_id], 0 - 1, NoOutcome, <<>>,
               {"lookup"}, replay)

\* a gate whose 401 says which check of verify_hmac_signature failed
M_GateVerdict_ExplainsFailure(c, v, now) ==
    LET ran == c.ran \cup {"read_body"} \cup v.ran
        read == IF "window" \in v.ran THEN now ELSE 0 - 1
    IN  IF v.ret = "raise"
        THEN Check("done", c.req, c.secret, read, Unhandled(v.exc),
                   c.log \o v.log, ran, c.replay)
        ELSE IF v.ret = "False"
        THEN Check("done", c.req, c.secret, read,
                   Outcome("HTTPException", 401,
                           IF v.log = <<>> THEN "Invalid signature."
                           ELSE "Invalid timestamp.",
                           {<<"WWW-Authenticate", "Signature">>}, <<>>, <<>>),
                   c.log \o v.log \o <<"HMAC signature verification failed">>,
                   ran, c.replay)
        ELSE Check("done", c.req, c.secret, read,
                   Authenticated(c.req.x_instance_id, c.req.body),
                   c.log \o v.log \o <<"authenticated successfully">>,
                   ran, c.replay)

\* a gate that hands back what is left of the body stream after it was read:
\* nothing
M_GateVerdict_BodyConsumed(c, v, now) ==
    LET ran == c.ran \cup {"read_body"} \cup v.ran
        read == IF "window" \in v.ran THEN now ELSE 0 - 1
    IN  IF v.ret = "raise"
        THEN Check("done", c.req, c.secret, read, Unhandled(v.exc),
                   c.log \o v.log, ran, c.replay)
        ELSE IF v.ret = "False"
        THEN Check("done", c.req, c.secret, read, InvalidSignatureOrTimestamp,
                   c.log \o v.log \o <<"HMAC signature verification failed">>,
                   ran, c.replay)
        ELSE Check("done", c.req, c.secret, read,
                   Authenticated(c.req.x_instance_id, <<>>),
                   c.log \o v.log \o <<"authenticated successfully">>,
                   ran, c.replay)

\* lines 86-104: what the gate makes of the verdict v of verify_hmac_signature
GateVerdict(c, v, now) ==
    LET ran == c.ran \cup {"read_body"} \cup v.ran
        read == IF "window" \in v.ran THEN now ELSE 0 - 1
    IN  IF v.ret = "raise"
        THEN Check("done", c.req, c.secret, read, Unhandled(v.exc),
                   c.log \o v.log, ran, c.replay)
        ELSE IF v.ret = "False"
        THEN Check("done", c.req, c.secret, read, InvalidSignatureOrTimestamp,
                   c.log \o v.log \o <<"HMAC signature verification failed">>,
                   ran, c.replay)
        ELSE Check("done", c.req, c.secret, read,
                   Authenticated(c.req.x_instance_id, c.req.body),
                   c.log \o v.log \o <<"authenticated successfully">>,
                   ran, c.replay)

\* a gate that remembers the signatures it accepted and accepts each once
\* (the signature the eavesdropper holds is one it accepted)
M_AuthenticateVerify_SingleUse(c, now) ==
    LET v == verify_hmac_signature(c.secret, c.req.x_request_timestamp,
                 c.req.x_request_signature, c.req.method, c.req.path,
                 c.req.body, now)
    IN  IF /\ v.ret = "True" /\ captured.set
           /\ captured.req.x_request_signature = c.req.x_request_signature
        THEN GateVerdict(c, [v EXCEPT !.ret = "False"], now)
        ELSE GateVerdict(c, v, now)

\* lines 84-104, from the return of `await request.body()` to the verdict
AuthenticateVerify(c, now) ==
    GateVerdict(c, verify_hmac_signature(c.secret, c.req.x_request_timestamp,
                       c.req.x_request_signature, c.req.method, c.req.path,
                       c.req.body, now), now)

----------------------------------------------------------------------------
(* The protected endpoints: receive_metrics and agent_heartbeat *)

\* uuid.UUID(text), the inverse of str(uuid); hexadecimal digits are read in
\* either case
UuidParse(text) ==
    LET low == [i \in DOMAIN text |->
                   IF text[i] >= 65 /\ text[i] <= 90 THEN text[i] + 32 ELSE text[i]]
    IN  IF \E u \in Uuids : UuidStr(u) = low
        THEN [ok |-> TRUE, value |-> CHOOSE u \in Uuids : UuidStr(u) = low]
        ELSE [ok |-> FALSE, value |-> 0]

\* The JSON text of a payload is abbreviated to the instance ids it embeds,
\* one byte (the text of the id) each. A MetricsBatchWrapper is a list of
\* SystemMetricsPayload, of which the handlers read instance_id only; the
\* empty body stands for {"metrics": []}. Any other byte is no payload.
ParseMetricsBatchWrapper(body) ==
    IF \A i \in DOMAIN body : UuidParse(<<body[i]>>).ok
    THEN [ok |-> TRUE,
          metrics |-> [i \in DOMAIN body |->
                          [instance_id |-> UuidParse(<<body[i]>>).value]]]
    ELSE [ok |-> FALSE, metrics |-> <<>>]

\* a HeartbeatPayload embeds exactly one instance id
ParseHeartbeatPayload(body) ==
    IF Len(body) = 1 /\ UuidParse(body).ok
    THEN [ok |-> TRUE, instance_id |-> UuidParse(body).value]
    ELSE [ok |-> FALSE, instance_id |-> 0]

Response(status_code, detail) == [status_code |-> status_code, detail |-> detail]
NoResponse == Response(0, "")

\* what a handler leaves behind: the two stores and the response
Handled(agents, metrics, resp) ==
    [db_agents |-> agents, db_metrics |-> metrics, response |-> resp]

\* the index of the first metric of the batch embedding another instance id,
\* 0 if there is none (the loop of lines 98-103)
FirstMismatch(metrics_batch, instance_id_from_auth) ==
    LET bad == {i \in DOMAIN metrics_batch :
                   metrics_batch[i].instance_id # instance_id_from_auth}
    IN  IF bad = {} THEN 0 ELSE CHOOSE i \in bad : \A j \in bad : i <= j

\* a handler that stores the batch without comparing the embedded ids
M_receive_metrics_NoCrossCheck(payload_wrapper, authenticated_agent_data) ==
    LET instance_id_from_auth == UuidParse(authenticated_agent_data.instance_id).value
        metrics_batch == payload_wrapper.metrics
        batch_to_store == [received_at |-> "now",
                           instance_id |-> instance_id_from_auth,
                           metrics |-> metrics_batch]
    IN  IF metrics_batch = <<>>
        THEN Handled(db_agents, db_metrics,
                     Response(400, "Empty metrics batch received."))
        ELSE Handled(db_agents,
                     Put(db_metrics, instance_id_from_auth,
                         Append(IF instance_id_from_auth \in DOMAIN db_metrics
                                THEN db_metrics[instance_id_from_auth] ELSE <<>>,
                                batch_to_store)),
                     Response(202, "Metrics batch accepted."))

\* a handler that stores the batch first and validates it afterwards
M_receive_metrics_StoreFirst(payload_wrapper, authenticated_agent_data) ==
    LET instance_id_from_auth == UuidParse(authenticated_agent_data.instance_id).value
        metrics_batch == payload_wrapper.metrics
        batch_to_store == [received_at |-> "now",
                           instance_id |-> instance_id_from_auth,
                           metrics |-> metrics_batch]
        stored == Put(db_metrics, instance_id_from_auth,
                      Append(IF instance_id_from_auth \in DOMAIN db_metrics
                             THEN db_metrics[instance_id_from_auth] ELSE <<>>,
                             batch_to_store))
    IN  IF metrics_batch = <<>>
        THEN Handled(db_agents, stored,
                     Response(400, "Empty metrics batch received."))
        ELSE IF FirstMismatch(metrics_batch, instance_id_from_auth) # 0
        THEN Handled(db_agents, stored,
                     Response(400, "Mismatch in instance_id in metrics payload"))
        ELSE Handled(db_agents, stored, Response(202, "Metrics batch accepted."))

\* main.receive_metrics, lines 91-113. received_at is written and read by no
\* handler: the model keeps that it was set, not the instant.
receive_metrics(payload_wrapper, authenticated_agent_data) ==
    LET instance_id_from_auth == UuidParse(authenticated_agent_data.instance_id).value
        metrics_batch == payload_wrapper.metrics
        batch_to_store == [received_at |-> "now",
                           instance_id |-> instance_id_from_auth,
                           metrics |-> metrics_batch]
    IN  IF metrics_batch = <<>>
        THEN Handled(db_agents, db_metrics,
                     Response(400, "Empty metrics batch received."))
        ELSE IF FirstMismatch(metrics_batch, instance_id_from_auth) # 0
        THEN Handled(db_agents, db_metrics,
                     Response(400, "Mismatch in instance_id in metrics payload"))
        ELSE Handled(db_agents,
                     Put(db_metrics, instance_id_from_auth,
                         Append(IF instance_id_from_auth \in DOMAIN db_metrics
                                THEN db_metrics[instance_id_from_auth] ELSE <<>>,
                                batch_to_store)),
                     Response(202, "Metrics batch accepted."))

\* a handler that marks the agent named in the payload
M_agent_heartbeat_PayloadIdentity(payload, authenticated_agent_data) ==
    IF payload.instance_id \in DOMAIN db_agents
    THEN Handled([db_agents EXCEPT ![payload.instance_id].last_heartbeat_at = clock],
                 db_metrics, Response(200, "Heartbeat acknowledged"))
    ELSE Handled(db_agents, db_metrics,
                 Response(404, "Agent not found for heartbeat."))

\* main.agent_heartbeat, lines 124-138
agent_heartbeat(payload, authenticated_agent_data) ==
    LET instance_id_from_auth == UuidParse(authenticated_agent_data.instance_id).value
    IN  IF payload.instance_id # instance_id_from_auth
        THEN Handled(db_agents, db_metrics,
                 Response(400, "Mismatch in instance_id in heartbeat payload and authenticated agent."))
        ELSE IF instance_id_from_auth \in DOMAIN db_agents
        THEN Handled([db_agents EXCEPT ![instance_id_from_auth].last_heartbeat_at = clock],
                     db_metrics, Response(200, "Heartbeat acknowledged"))
        ELSE Handled(db_agents, db_metrics,
                     Response(404, "Agent not found for heartbeat."))

----------------------------------------------------------------------------
(* What the environment sends *)

\* agent_api_key values of registrations: "", "k", "q"
Secrets == {<<>>, <<107>>, <<113>>}
\* the keys agents sign with
AgentKeys == {<<107>>, <<113>>}

\* X-Request-Timestamp values: "0", "300", "301", "", "x",
\* "253402300800" (year 10000), "99999999999999999999"
Ts0 == <<48>>
Ts300 == <<51, 48, 48>>
Ts301 == <<51, 48, 49>>
TsYear10000 == <<50,53,51,52,48,50,51,48,48,56,48,48>>
TsHuge == [i \in 1..20 |-> 57]
TsSamples == {Ts0, Ts300, Ts301, <<>>, <<120>>, TsYear10000, TsHuge}

POST == <<80, 79, 83, 84>>
GET == <<71, 69, 84>>
post == <<112, 111, 115, 116>>
MetricsPath == <<47, 109>>        \* stands for /v1/agent/metrics
HeartbeatPath == <<47, 104>>      \* stands for /v1/agent/heartbeat
BodyA == <<97>>
BodyB == <<98>>
BodyNotUtf8 == <<255>>

\* the request an agent holding key k sends for instance id text `id`
Honest(id, k, ts, method, path, body) ==
    Request({}, id, ts, Sign(k, ts, method, path, body), method, path, body)

\* correctly formed requests of instance 1 under either key, one of
\* instance 2, and requests of instance 1 signed with the keys "" and "k\0"
HonestRequests ==
    {Honest(UuidStr(1), k, ts, POST, MetricsPath, BodyA) :
        k \in AgentKeys, ts \in {Ts0, Ts300, Ts301}}
    \cup {Honest(UuidStr(2), <<113>>, Ts0, POST, MetricsPath, BodyA)}
    \cup {Honest(UuidStr(1), k, Ts0, POST, MetricsPath, BodyA) :
             k \in {<<>>, <<107, 0>>}}

\* signed requests whose timestamp header is no timestamp
BadTimestampRequests ==
    {Honest(UuidStr(1), <<107>>, ts, POST, MetricsPath, BodyA) :
        ts \in TsSamples \ {Ts0, Ts300, Ts301}}

\* a signed request with one part replaced after signing
TamperedRequests ==
    LET h == Honest(UuidStr(1), <<107>>, Ts0, POST, MetricsPath, BodyA)
    IN  {[h EXCEPT !.method = GET], [h EXCEPT !.method = post],
         [h EXCEPT !.path = HeartbeatPath],
         [h EXCEPT !.body = BodyB], [h EXCEPT !.body = BodyNotUtf8],
         [h EXCEPT !.x_request_timestamp = Ts300],
         [h EXCEPT !.x_request_timestamp = <<>>],
         [h EXCEPT !.x_request_signature = OtherText(<<120>>)],
         [h EXCEPT !.x_request_signature = OtherText(<<>>)],
         [h EXCEPT !.x_instance_id = <<>>],
         [h EXCEPT !.x_instance_id = Upper(UuidStr(1))]}

\* requests that lack required headers
HeaderlessRequests ==
    {[Honest(UuidStr(1), <<107>>, ts, POST, MetricsPath, BodyA)
         EXCEPT !.missing = m] :
        m \in {{h} : h \in HeaderNames} \cup {HeaderNames}, ts \in {Ts0, <<120>>}}

Requests ==
    HonestRequests \cup BadTimestampRequests \cup TamperedRequests
        \cup HeaderlessRequests

\* requests of instance 1 to both endpoints: a heartbeat for itself and one
\* for instance 2; metrics batches that are its own, empty, mixed with a
\* metric of instance 2 and no payload
AppRequests ==
    {Honest(UuidStr(1), <<107>>, Ts0, POST, HeartbeatPath, b) : b \in {BodyA, BodyB}}
    \cup {Honest(UuidStr(1), <<107>>, Ts0, POST, MetricsPath, b) :
        b \in {BodyA, <<>>, <<97, 98>>, <<120>>}}

\* requests in flight at the same time, each a metrics request of instance 1
\* with the empty batch for body: signed under either key, with a signature
\* that is none, with a timestamp that is no integer, and with one too large
\* to convert
ConcurrentRequests ==
    LET h == Honest(UuidStr(1), <<107>>, Ts0, POST, MetricsPath, <<>>)
    IN  {h, Honest(UuidStr(1), <<113>>, Ts0, POST, MetricsPath, <<>>),
         [h EXCEPT !.x_request_signature = OtherText(<<120>>)],
         Honest(UuidStr(1), <<107>>, <<120>>, POST, MetricsPath, <<>>),
         Honest(UuidStr(1), <<107>>, TsHuge, POST, MetricsPath, <<>>)}
\* the requests of the second client: signed under either key
PeerRequests ==
    {Honest(UuidStr(1), k, Ts0, POST, MetricsPath, <<>>) : k \in AgentKeys}

\* the requests an eavesdropper may see and resend
ReplayRequests ==
    {Honest(UuidStr(1), <<107>>, ts, POST, MetricsPath, BodyA) : ts \in {Ts0, Ts300}}

\* the instants the clock is observed at: around 0 and around the window
ClockInstants ==
    {s * TicksPerSecond + f :
        s \in {0} \cup (TIMESTAMP_VALIDITY_SECONDS ..
                       (TIMESTAMP_VALIDITY_SECONDS + SecondsPastWindow)),
        f \in 0..(TicksPerSecond - 1)}

----------------------------------------------------------------------------
(* The state machine *)

NoCapture == [set |-> FALSE, req |-> NoRequest, secret |-> <<>>]
NoCall == [done |-> FALSE, secret |-> <<>>, req |-> NoRequest, now |-> 0,
           verdict |-> Verdict("", "", <<>>, {}), changed |-> ""]

Init ==
    /\ AGENT_API_KEYS = <<>>
    /\ db_agents = <<>>
    /\ db_metrics = <<>>
    /\ clock = 0
    /\ check = IdleCheck
    /\ peer = IdleCheck
    /\ response = [check |-> NoResponse, peer |-> NoResponse]
    /\ captured = NoCapture
    /\ call = NoCall
    /\ call2 = NoCall

\* a registration that keeps the key of the first registration
\* (AGENT_API_KEYS.setdefault, as for db_metrics)
M_register_agent_KeepFirstKey(instance_id, instance_name, cloud_provider, agent_api_key) ==
    /\ db_agents' = Put(db_agents, instance_id,
            [instance_id |-> instance_id, instance_name |-> instance_name,
             cloud_provider |-> cloud_provider, agent_api_key |-> agent_api_key,
             registered_at |-> "now", last_heartbeat_at |-> 0 - 1])
    /\ AGENT_API_KEYS' = IF UuidStr(instance_id) \in DOMAIN AGENT_API_KEYS
                         THEN AGENT_API_KEYS
                         ELSE Put(AGENT_API_KEYS, UuidStr(instance_id), agent_api_key)
    /\ db_metrics' = IF instance_id \in DOMAIN db_metrics THEN db_metrics
                     ELSE Put(db_metrics, instance_id, <<>>)
    /\ UNCHANGED <<clock, check, peer, response, captured, call, call2>>

\* a registration that updates the key store and the metrics list, and the
\* agent record only of an instance it does not know yet
M_register_agent_KeepFirstRecord(instance_id, instance_name, cloud_provider, agent_api_key) ==
    /\ db_agents' = IF instance_id \in DOMAIN db_agents THEN db_agents
                    ELSE Put(db_agents, instance_id,
            [instance_id |-> instance_id, instance_name |-> instance_name,
             cloud_provider |-> cloud_provider, agent_api_key |-> agent_api_key,
             registered_at |-> "now", last_heartbeat_at |-> 0 - 1])
    /\ AGENT_API_KEYS' = Put(AGENT_API_KEYS, UuidStr(instance_id), agent_api_key)
    /\ db_metrics' = IF instance_id \in DOMAIN db_metrics THEN db_metrics
                     ELSE Put(db_metrics, instance_id, <<>>)
    /\ UNCHANGED <<clock, check, peer, response, captured, call, call2>>

\* main.register_agent, lines 47-74. registered_at is written here and read by
\* no handler: the model keeps that it was set, not the instant.
register_agent(instance_id, instance_name, cloud_provider, agent_api_key) ==
    /\ db_agents' = Put(db_agents, instance_id,
            [instance_id |-> instance_id, instance_name |-> instance_name,
             cloud_provider |-> cloud_provider, agent_api_key |-> agent_api_key,
             registered_at |-> "now", last_heartbeat_at |-> 0 - 1])
    /\ AGENT_API_KEYS' = Put(AGENT_API_KEYS, UuidStr(instance_id), agent_api_key)
    /\ db_metrics' = IF instance_id \in DOMAIN db_metrics THEN db_metrics
                     ELSE Put(db_metrics, instance_id, <<>>)
    /\ UNCHANGED <<clock, check, peer, response, captured, call, call2>>

Register ==
    \E u \in Uuids, k \in Secrets : register_agent(u, "vm", "aws", k)

\* The endpoint of a request whose check c has ended: the gate's exception is
\* the answer, or the body is parsed into the payload of the route (a body
\* that is no payload is answered 422) and the handler runs.
Endpoint(c) ==
    IF c.outcome.kind # "return"
    THEN Handled(db_agents, db_metrics, NoResponse)
    ELSE IF c.req.path = MetricsPath
    THEN LET payload_wrapper == ParseMetricsBatchWrapper(c.req.body)
         IN  IF payload_wrapper.ok
             THEN receive_metrics(payload_wrapper, c.outcome)
             ELSE Handled(db_agents, db_metrics, Response(422, ""))
    ELSE LET payload == ParseHeartbeatPayload(c.req.body)
         IN  IF payload.ok
             THEN agent_heartbeat(payload, c.outcome)
             ELSE Handled(db_agents, db_metrics, Response(422, ""))

\* no list of batches is longer than the model stores
HasRoom(metrics) == \A u \in DOMAIN metrics : Len(metrics[u]) <= MaxBatches

\* a protected request arrives: authenticate_agent runs to its first await
ArriveFrom(S) ==
    /\ check.pc \in {"idle", "done"}
    /\ \E r \in S : check' = AuthenticateLookup(r, AGENT_API_KEYS, FALSE)
    /\ response' = [response EXCEPT !.check = NoResponse]
    /\ UNCHANGED <<AGENT_API_KEYS, db_agents, db_metrics, clock, peer, captured, call, call2>>

Arrive == ArriveFrom(Requests)

\* a gate that locks an instance out after a failed verification: it blanks
\* the stored key
M_BodyRead_RevokeOnFailure ==
    /\ check.pc = "body"
    /\ LET c == AuthenticateVerify(check, clock)
           h == Endpoint(c)
       IN  /\ HasRoom(h.db_metrics)
           /\ check' = c
           /\ db_agents' = h.db_agents
           /\ db_metrics' = h.db_metrics
           /\ response' = [response EXCEPT !.check = h.response]
           /\ AGENT_API_KEYS' =
                  IF c.outcome = InvalidSignatureOrTimestamp
                  THEN Put(AGENT_API_KEYS, c.req.x_instance_id, <<>>)
                  ELSE AGENT_API_KEYS
    /\ UNCHANGED <<clock, peer, captured, call, call2>>

\* `await request.body()` returns: authenticate_agent runs to its end
BodyRead ==
    /\ check.pc = "body"
    /\ LET c == AuthenticateVerify(check, clock)
           h == Endpoint(c)
       IN  /\ HasRoom(h.db_metrics)
           /\ check' = c
           /\ db_agents' = h.db_agents
           /\ db_metrics' = h.db_metrics
           /\ response' = [response EXCEPT !.check = h.response]
    /\ UNCHANGED <<AGENT_API_KEYS, clock, peer, captured, call, call2>>

\* a second protected request arrives while the first may be in flight
PeerArriveFrom(S) ==
    /\ peer.pc \in {"idle", "done"}
    /\ \E r \in S : peer' = AuthenticateLookup(r, AGENT_API_KEYS, FALSE)
    /\ response' = [response EXCEPT !.peer = NoResponse]
    /\ UNCHANGED <<AGENT_API_KEYS, db_agents, db_metrics, clock, check, captured, call, call2>>

\* ... and its `await request.body()` returns
PeerBodyRead ==
    /\ peer.pc = "body"
    /\ LET c == AuthenticateVerify(peer, clock)
           h == Endpoint(c)
       IN  /\ HasRoom(h.db_metrics)
           /\ peer' = c
           /\ db_agents' = h.db_agents
           /\ db_metrics' = h.db_metrics
           /\ response' = [response EXCEPT !.peer = h.response]
    /\ UNCHANGED <<AGENT_API_KEYS, clock, check, captured, call, call2>>

\* an eavesdropper keeps a request it saw authenticated
Capture ==
    /\ check.pc = "done" /\ check.outcome.kind = "return"
    /\ ~captured.set
    /\ captured' = [set |-> TRUE, req |-> check.req, secret |-> check.secret]
    /\ UNCHANGED <<AGENT_API_KEYS, db_agents, db_metrics, clock, check, peer, response, call, call2>>

\* ... and sends it again, unchanged
Replay ==
    /\ captured.set
    /\ check.pc \in {"idle", "done"}
    /\ check' = AuthenticateLookup(captured.req, AGENT_API_KEYS, TRUE)
    /\ response' = [response EXCEPT !.check = NoResponse]
    /\ UNCHANGED <<AGENT_API_KEYS, db_agents, db_metrics, clock, peer, captured, call, call2>>

\* time passes
Tick ==
    /\ \E t \in ClockInstants : t > clock /\ clock' = t
    /\ UNCHANGED <<AGENT_API_KEYS, db_agents, db_metrics, check, peer, response, captured, call, call2>>

\* One direct call of verify_hmac_signature with the signature an agent
\* computes over the same arguments
CallRecord(secret, ts, sig, method, path, body, now) ==
    [done |-> TRUE, secret |-> secret,
     req |-> Request({}, <<>>, ts, sig, method, path, body), now |-> now,
     verdict |-> verify_hmac_signature(secret, ts, sig, method, path, body, now),
     changed |-> ""]

\* secrets "k", "q", "k\0"; timestamps "0", "300", "+300", "x" and 20 nines
CallSecrets == {<<107>>, <<113>>, <<107, 0>>}
CallTimestamps == {Ts0, Ts300, <<43, 51, 48, 48>>, <<120>>, TsHuge}
CallMethods == {POST, post, GET}
CallPaths == {MetricsPath, HeartbeatPath}
CallBodies == {BodyA, <<97, 98>>}
CallBytes == {97, 98, 255}

CallVerify ==
    /\ ~call.done
    /\ \E secret \in CallSecrets, ts \in CallTimestamps, method \in CallMethods,
          path \in CallPaths, body \in CallBodies :
            call' = CallRecord(secret, ts, Sign(secret, ts, method, path, body),
                               method, path, body, clock)
    /\ call2' = NoCall
    /\ UNCHANGED <<AGENT_API_KEYS, db_agents, db_metrics, clock, check, peer, response, captured>>

\* The call again with the same signature and exactly one of secret,
\* timestamp, method, path, or one byte of the body replaced. `changed` names
\* the argument.
CallChanged ==
    /\ call.done /\ ~call2.done
    /\ LET r == call.req
           again(part, secret, ts, method, path, body) ==
               call2' = [CallRecord(secret, ts, r.x_request_signature, method,
                                    path, body, clock) EXCEPT !.changed = part]
       IN  \/ \E x \in CallSecrets \ {call.secret} :
                again("secret", x, r.x_request_timestamp, r.method, r.path, r.body)
           \/ \E x \in CallTimestamps \ {r.x_request_timestamp} :
                again("timestamp", call.secret, x, r.method, r.path, r.body)
           \/ \E x \in CallMethods \ {r.method} :
                again("method", call.secret, r.x_request_timestamp, x, r.path, r.body)
           \/ \E x \in CallPaths \ {r.path} :
                again("path", call.secret, r.x_request_timestamp, r.method, x, r.body)
           \/ \E i \in DOMAIN r.body : \E x \in CallBytes \ {r.body[i]} :
                again("body", call.secret, r.x_request_timestamp, r.method, r.path,
                      [r.body EXCEPT ![i] = x])
    /\ UNCHANGED <<AGENT_API_KEYS, db_agents, db_metrics, clock, check, peer, response, captured, call>>

Next == Register \/ Arrive \/ BodyRead \/ Tick

Spec == Init /\ [][Next]_vars

\* the two protected endpoints under requests of registered agents
ArriveApp == ArriveFrom(AppRequests)

NextApp == Register \/ ArriveApp \/ BodyRead \/ Tick

SpecApp == Init /\ [][NextApp]_vars

\* two requests in flight at the same time, and registrations
ArriveConcurrent == ArriveFrom(ConcurrentRequests)
PeerArrive == PeerArriveFrom(PeerRequests)

NextConcurrent ==
    Register \/ ArriveConcurrent \/ BodyRead \/ PeerArrive \/ PeerBodyRead \/ Tick

SpecConcurrent == Init /\ [][NextConcurrent]_vars

\* the gate under an eavesdropper who resends what it saw authenticated
ArriveSigned == ArriveFrom(ReplayRequests)

NextReplay == Register \/ ArriveSigned \/ BodyRead \/ Capture \/ Replay \/ Tick

SpecReplay == Init /\ [][NextReplay]_vars

\* verify_hmac_signature called directly, at any instant, and called again at
\* the same instant with one argument changed
TickBeforeCall == ~call.done /\ Tick

NextVerify == CallVerify \/ CallChanged \/ TickBeforeCall

SpecVerify == Init /\ [][NextVerify]_vars

----------------------------------------------------------------------------
(* Properties *)

IsAuthenticated == check.pc = "done" /\ check.outcome.kind = "return"
IsRejected == check.pc = "done" /\ check.outcome.kind = "HTTPException"

\* the text ts denotes an integer of seconds at most 300 s from the instant now
ParsesWithinWindow(ts, now) ==
    LET lit == IntLiteral(ts)
    IN  /\ lit.ok /\ Len(lit.digits) <= MaxValueDigits
        /\ now - LiteralValue(lit) * TicksPerSecond
               <= TIMESTAMP_VALIDITY_SECONDS * TicksPerSecond
        /\ LiteralValue(lit) * TicksPerSecond - now
               <= TIMESTAMP_VALIDITY_SECONDS * TicksPerSecond

\* the signature header of r is the base64 text of the HMAC-SHA256, under
\* secret, of "timestamp LF METHOD LF path LF body"
SignedUnder(r, secret) ==
    /\ Utf8Valid(r.body)
    /\ r.x_request_signature =
           B64Encode(HmacSha256(Utf8Encode(secret),
               Utf8Encode(r.x_request_timestamp \o <<LF>> \o Upper(r.method)
                          \o <<LF>> \o r.path \o <<LF>> \o Utf8Decode(r.body))))

\* this step is the verdict of the check
VerdictStep == check.pc = "body" /\ check'.pc = "done"
\* this step is the secret lookup of a check that goes on to read the body
LookupStep == check.pc # "body" /\ check'.pc = "body"

\* C1 as stated: a check ends authenticated as I only if, in the state of the
\* verdict, I is the X-Instance-Id header, I has a secret in the registry, the
\* timestamp parses and is within 300 s of the clock, and the signature is the
\* HMAC of the canonical message under the secret the registry holds for I.
C1_SecretAtVerdict ==
    [][(VerdictStep /\ check'.outcome.kind = "return") =>
          LET r == check'.req
              I == check'.outcome.instance_id
          IN  /\ I = r.x_instance_id
              /\ I \in DOMAIN AGENT_API_KEYS'
              /\ ParsesWithinWindow(r.x_request_timestamp, clock')
              /\ SignedUnder(r, AGENT_API_KEYS'[I])]_vars

\* C1 amended: ... the signature is the HMAC of the canonical message under
\* the non-empty secret the gate read from the registry for I when the check
\* began (the lookup of line 73), and the timestamp is within 300 s of the
\* clock read at the verdict.
C1_SecretAtLookup ==
    /\ [](IsAuthenticated =>
            /\ check.outcome.instance_id = check.req.x_instance_id
            /\ check.secret # <<>>
            /\ check.req.x_instance_id \in DOMAIN AGENT_API_KEYS
            /\ ParsesWithinWindow(check.req.x_request_timestamp, check.now)
            /\ SignedUnder(check.req, check.secret))
    /\ [][/\ LookupStep =>
               /\ check'.req.x_instance_id \in DOMAIN AGENT_API_KEYS
               /\ check'.secret = AGENT_API_KEYS[check'.req.x_instance_id]
          /\ VerdictStep =>
               /\ check'.secret = check.secret /\ check'.req = check.req
               /\ check'.now \in {clock, 0 - 1}]_vars

\* C1 witness: a check ended authenticated after the secret of its instance
\* was replaced during the body read
C1_Witness ==
    /\ IsAuthenticated
    /\ AGENT_API_KEYS[check.req.x_instance_id] # check.secret

----------------------------------------------------------------------------
\* the seconds the timestamp header of the check denotes (when it parses)
CheckSeconds == LiteralValue(IntLiteral(check.req.x_request_timestamp))

\* a check of a correctly signed request that reached the window check
SignedCheckAtWindow ==
    /\ check.pc = "done" /\ check.now # 0 - 1
    /\ IntLiteral(check.req.x_request_timestamp).ok
    /\ SignedUnder(check.req, check.secret)

\* C2: a correctly signed request of a registered instance passes the window
\* check when its timestamp is exactly now - 300 s or exactly now + 300 s, and
\* fails it when its timestamp is now - 301 s or now + 301 s, now being the
\* clock read by the check.
C2_WindowBoundary ==
    SignedCheckAtWindow =>
        LET ts == CheckSeconds * TicksPerSecond
            w == TIMESTAMP_VALIDITY_SECONDS * TicksPerSecond
            over == (TIMESTAMP_VALIDITY_SECONDS + 1) * TicksPerSecond
        IN  /\ (ts = check.now - w \/ ts = check.now + w) => IsAuthenticated
            /\ (ts = check.now - over \/ ts = check.now + over) =>
                   /\ check.outcome = InvalidSignatureOrTimestamp
                   /\ ~("hmac" \in check.ran)

\* C2 witness: a request stamped exactly 300 s before the clock of its check
\* was authenticated
C2_Witness ==
    /\ IsAuthenticated
    /\ CheckSeconds * TicksPerSecond
           = check.now - TIMESTAMP_VALIDITY_SECONDS * TicksPerSecond

\* this step starts a check of a request that carries all three headers
ArrivalStep ==
    /\ check.pc \in {"idle", "done"} /\ check'.pc \in {"body", "done"}
    /\ check'.req.missing = {}

\* C3: a request whose instance identifier has no entry in the registry is
\* rejected as UnknownInstance in the step that looks the secret up: the body
\* is not read, the timestamp is not parsed and no signature is computed,
\* whatever the timestamp and signature headers hold.
C3_UnknownInstanceFirst ==
    [][(ArrivalStep /\ ~(check'.req.x_instance_id \in DOMAIN AGENT_API_KEYS)) =>
          /\ check'.pc = "done"
          /\ check'.outcome = UnknownInstance
          /\ check'.ran = {"lookup"}
          /\ check'.now = 0 - 1]_vars

\* C3 witness: a request of an unregistered instance with a malformed
\* timestamp ended as UnknownInstance
C3_Witness ==
    /\ check.pc = "done" /\ check.outcome = UnknownInstance
    /\ check.req.missing = {}
    /\ ~(check.req.x_instance_id \in DOMAIN AGENT_API_KEYS)
    /\ ~IntLiteral(check.req.x_request_timestamp).ok

\* The first check a finished run of the gate failed, in the order resolve
\* secret, parse timestamp, window check, verify signature ("" if none)
FirstFailure ==
    LET lit == IntLiteral(check.req.x_request_timestamp)
    IN  IF check.secret = <<>> THEN "UnknownInstance"
        ELSE IF ~lit.ok \/ FromTimestamp(lit) # "ok" THEN "MalformedTimestamp"
        ELSE IF ~ParsesWithinWindow(check.req.x_request_timestamp, check.now)
        THEN "TimestampOutOfWindow"
        ELSE IF ~SignedUnder(check.req, check.secret) THEN "SignatureMismatch"
        ELSE ""

\* the reason a rejection of the gate carries: what its detail text says
ReasonCarried(o) ==
    IF o.detail = "Invalid instance ID or agent not registered with an API key."
    THEN "UnknownInstance"
    ELSE IF o.detail = "Invalid signature or timestamp."
    THEN "SignatureOrTimestamp"
    ELSE "other"

\* C4 as stated: every rejection carries exactly one of the four reasons, the
\* one of the first failing check, and MalformedTimestamp, TimestampOutOfWindow
\* and SignatureMismatch are distinct outcomes.
C4_FourReasons ==
    IsRejected =>
        /\ ReasonCarried(check.outcome) \in
               {"UnknownInstance", "MalformedTimestamp", "TimestampOutOfWindow",
                "SignatureMismatch"}
        /\ ReasonCarried(check.outcome) = FirstFailure

\* C4 amended: every rejection is one of two outcomes, decided by the first
\* failing check in the order resolve secret, parse timestamp, window check,
\* verify signature: 401 "Invalid instance ID..." when the secret lookup
\* fails, and otherwise the one 401 "Invalid signature or timestamp." for all
\* of malformed timestamp, timestamp out of window and signature mismatch;
\* which of these three failed shows only in the line verify_hmac_signature
\* prints.
C4_TwoOutcomes ==
    IsRejected =>
        \/ /\ FirstFailure = "UnknownInstance"
           /\ check.outcome = UnknownInstance
           /\ check.log = <<"No API key found for instance_id">>
        \/ /\ FirstFailure = "MalformedTimestamp"
           /\ check.outcome = InvalidSignatureOrTimestamp
           /\ check.log = <<"Invalid timestamp format",
                            "HMAC signature verification failed">>
        \/ /\ FirstFailure = "TimestampOutOfWindow"
           /\ check.outcome = InvalidSignatureOrTimestamp
           /\ check.log = <<"Timestamp validation failed",
                            "HMAC signature verification failed">>
        \/ /\ FirstFailure = "SignatureMismatch"
           /\ check.outcome = InvalidSignatureOrTimestamp
           /\ check.log = <<"HMAC signature verification failed">>

\* C4 witness: a request that is both stale and wrongly signed was rejected
\* for its timestamp
C4_Witness ==
    /\ IsRejected /\ FirstFailure = "TimestampOutOfWindow"
    /\ ~SignedUnder(check.req, check.secret)
    /\ check.outcome = InvalidSignatureOrTimestamp

\* C5: for a registered instance, a timestamp header that is no integer count
\* of seconds the server can turn into a time (non-numeric, empty, too large)
\* ends the check in the rejection for a malformed timestamp, never in an
\* unhandled exception.
C5_MalformedTimestampRejected ==
    (check.pc = "done" /\ FirstFailure = "MalformedTimestamp") =>
        /\ check.outcome.kind # "unhandled"
        /\ check.outcome = InvalidSignatureOrTimestamp

\* some required header of the request of the check is present and empty
EmptyHeader(r) ==
    /\ r.missing = {}
    /\ \/ r.x_instance_id = <<>>
       \/ r.x_request_timestamp = <<>>
       \/ r.x_request_signature = OtherText(<<>>)

\* C6 as stated: a request with a missing or an empty required header ends in
\* the precondition failure, before the lookup, the parse and the verification.
C6_MissingOrEmpty ==
    (check.pc # "idle" /\ (check.req.missing # {} \/ EmptyHeader(check.req))) =>
        /\ check.pc = "done"
        /\ check.outcome = MissingHeader
        /\ check.ran = {}

\* C6 amended: a request that lacks a required header ends in the
\* precondition failure (422) before any authentication logic runs. A header
\* that is present but empty is passed on to the gate: the secret lookup runs
\* and the request is never authenticated; an empty instance identifier ends
\* as UnknownInstance, an empty timestamp of a registered instance as the 401
\* "Invalid signature or timestamp.".
C6_MissingOnly ==
    /\ (check.pc # "idle" /\ check.req.missing # {}) =>
           /\ check.pc = "done"
           /\ check.outcome = MissingHeader
           /\ check.ran = {}
    /\ (check.pc # "idle" /\ EmptyHeader(check.req)) =>
           /\ "lookup" \in check.ran
           /\ check.outcome # MissingHeader
           /\ ~IsAuthenticated
           /\ (check.req.x_instance_id = <<>>) => (check.outcome = UnknownInstance)
           /\ (check.pc = "done" /\ check.secret # <<>>
                 /\ check.req.x_request_timestamp = <<>>) =>
                  (check.outcome = InvalidSignatureOrTimestamp)

\* C6 witness: a request with an empty timestamp header went through the
\* secret lookup and the body read and was rejected by the gate
C6_Witness ==
    /\ check.pc = "done" /\ check.req.missing = {}
    /\ check.req.x_request_timestamp = <<>>
    /\ check.ran = {"lookup", "read_body", "parse"}
    /\ check.outcome = InvalidSignatureOrTimestamp

----------------------------------------------------------------------------
\* C7 as stated: verifying the signature computed over the same secret,
\* timestamp, method, path and body returns true, for every timestamp value.
C7_RoundTripAlways ==
    call.done => call.verdict.ret = "True"

\* C7 amended: verifying the signature computed over the same secret,
\* timestamp, method, path and (UTF-8) body returns true exactly when the
\* timestamp text parses as an integer within 300 s of the clock read by the
\* verification: verify_hmac_signature checks the timestamp itself.
C7_RoundTripInWindow ==
    call.done =>
        (call.verdict.ret = "True" <=>
            ParsesWithinWindow(call.req.x_request_timestamp, call.now))

\* C7 witness: a round trip with a lower-case method and the timestamp "+300"
\* returned true, 300 s before that timestamp
C7_Witness ==
    /\ call.done /\ call.verdict.ret = "True"
    /\ call.req.method = post
    /\ call.req.x_request_timestamp = <<43, 51, 48, 48>>
    /\ call.now = 0

RECURSIVE StripNul(_)
StripNul(k) ==
    IF k # <<>> /\ k[Len(k)] = 0 THEN StripNul(SubSeq(k, 1, Len(k) - 1)) ELSE k

\* the second call changed something other than the letter case of the method
RealChange == ~(call2.changed = "method" /\ Upper(call2.req.method) = Upper(call.req.method))

\* C8 as stated: when a signature verifies, the same signature with exactly
\* one of secret, timestamp text, method, path or one body byte changed (a
\* change of letter case of the method aside) makes verification return false.
C8_AnyChangeFalse ==
    (call.done /\ call.verdict.ret = "True" /\ call2.done /\ RealChange) =>
        call2.verdict.ret = "False"

\* C8 amended: ... never makes verification return true, except for a secret
\* that differs only by trailing NUL characters (HMAC pads the key with zero
\* bytes, so it is the same key); verification returns false, except that it
\* raises UnicodeDecodeError when the changed body byte leaves the body no
\* valid UTF-8, and OverflowError when the changed timestamp is an integer too
\* large to convert.
C8_ChangeNotVerified ==
    (call.done /\ call.verdict.ret = "True" /\ call2.done /\ RealChange) =>
        IF call2.changed = "secret" /\ StripNul(call2.secret) = StripNul(call.secret)
        THEN call2.verdict.ret = "True"
        ELSE IF call2.changed = "body" /\ ~Utf8Valid(call2.req.body)
        THEN call2.verdict.ret = "raise" /\ call2.verdict.exc = "UnicodeDecodeError"
        ELSE IF call2.changed = "timestamp" /\ call2.req.x_request_timestamp = TsHuge
        THEN call2.verdict.ret = "raise" /\ call2.verdict.exc = "OverflowError"
        ELSE call2.verdict.ret = "False"

\* C8 witness: a signature that verified for the metrics path was verified
\* against the heartbeat path and refused
C8_Witness ==
    /\ call.done /\ call.verdict.ret = "True" /\ call2.done
    /\ call2.changed = "path"
    /\ call.req.path = MetricsPath /\ call2.req.path = HeartbeatPath
    /\ call2.verdict.ret = "False"

----------------------------------------------------------------------------
\* C9: a request that was authenticated and is sent again unchanged, while the
\* clock is within 300 s of its timestamp and the secret of the instance is the
\* same, is authenticated again.
C9_ReplayWithinWindow ==
    (/\ check.pc = "done" /\ check.replay /\ captured.set
     /\ check.secret = captured.secret
     /\ check.now # 0 - 1
     /\ ParsesWithinWindow(check.req.x_request_timestamp, check.now)) =>
        /\ check.req = captured.req
        /\ IsAuthenticated

\* C9 witness: the resend of a request stamped 0 was authenticated at 300 s
C9_Witness ==
    /\ IsAuthenticated /\ check.replay
    /\ check.req.x_request_timestamp = Ts0
    /\ check.now = TIMESTAMP_VALIDITY_SECONDS * TicksPerSecond

\* the clock is more than 300 s past the timestamp of the captured request
Expired ==
    /\ captured.set
    /\ clock > (LiteralValue(IntLiteral(captured.req.x_request_timestamp))
                   + TIMESTAMP_VALIDITY_SECONDS) * TicksPerSecond

\* C10: once the clock is more than 300 s past the timestamp of a captured,
\* validly signed request, it stays so, and every check of that request that
\* ends from then on is rejected.
C10_BoundedReplay ==
    [][Expired =>
          /\ Expired'
          /\ (VerdictStep /\ check'.req = captured.req) =>
                 check'.outcome = InvalidSignatureOrTimestamp]_vars

\* C10 witness: the resend of the captured request was rejected after the
\* window, under the secret it was first authenticated with
C10_Witness ==
    /\ Expired
    /\ check.pc = "done" /\ check.replay /\ check.req = captured.req
    /\ check.secret = captured.secret
    /\ check.now > (CheckSeconds + TIMESTAMP_VALIDITY_SECONDS) * TicksPerSecond
    /\ check.outcome = InvalidSignatureOrTimestamp

----------------------------------------------------------------------------
(* Registration, the endpoints and concurrent checks *)

\* the secrets a client may sign with: "", "k", "q", "k\0"
SignSecrets == {<<>>, <<107>>, <<113>>, <<107, 0>>}

\* the timestamp header of r is the server's now, in whole seconds
TimestampNow(r, now) ==
    LET lit == IntLiteral(r.x_request_timestamp)
    IN  /\ lit.ok /\ Len(lit.digits) <= MaxValueDigits
        /\ LiteralValue(lit) = now \div TicksPerSecond

\* this step ends the check
CheckEnds == check' # check /\ check'.pc = "done"

\* this step is the arrival of a request with its three headers
LookupOfArrival ==
    ArrivalStep /\ UNCHANGED <<AGENT_API_KEYS, db_agents, clock, peer, captured>>

\* the instance the X-Instance-Id header of r is the string form of, 0 if none
InstanceOf(r) ==
    IF r.missing = {} /\ \E u \in Uuids : UuidStr(u) = r.x_instance_id
    THEN CHOOSE u \in Uuids : UuidStr(u) = r.x_instance_id
    ELSE 0

\* C11 as stated: when a check ends for a request of an instance A that is
\* registered with secret S, whatever S the registration accepted, and the
\* timestamp is the server's now, then the request is authenticated as A if
\* its signature was computed with S, and rejected with the answer of a failed
\* signature (not as UnknownInstance) if it was computed with another secret.
C11_AnySecret ==
    [][(CheckEnds /\ InstanceOf(check'.req) \in DOMAIN db_agents
            /\ TimestampNow(check'.req, clock)) =>
          LET r == check'.req
              S == db_agents[InstanceOf(r)].agent_api_key
          IN  /\ SignedUnder(r, S) =>
                     check'.outcome = Authenticated(r.x_instance_id, r.body)
              /\ (\E T \in SignSecrets \ {S} : SignedUnder(r, T)) =>
                     check'.outcome = InvalidSignatureOrTimestamp]_vars

\* C11 amended: ... for every instance A registered with a non-empty secret S
\* when its request arrives, the gate looks S up and goes on to verify; when
\* the check ends and the timestamp is the server's now, the request is
\* authenticated as A if its signature was computed with the looked-up S, and
\* rejected with the 401 "Invalid signature or timestamp." (not as
\* UnknownInstance) if it was computed with a secret that is another HMAC key.
\* An instance registered with the empty secret is rejected as UnknownInstance.
C11_NonEmptySecret ==
    /\ [][(LookupOfArrival /\ InstanceOf(check'.req) \in DOMAIN db_agents) =>
             LET S == db_agents[InstanceOf(check'.req)].agent_api_key
             IN  IF S = <<>>
                 THEN check'.pc = "done" /\ check'.outcome = UnknownInstance
                 ELSE check'.pc = "body" /\ check'.secret = S]_vars
    /\ [][(VerdictStep /\ TimestampNow(check.req, clock)) =>
             LET r == check.req
                 S == check.secret
             IN  /\ SignedUnder(r, S) =>
                        check'.outcome = Authenticated(r.x_instance_id, r.body)
                 /\ (\E T \in SignSecrets :
                        HmacKey(T) # HmacKey(S) /\ SignedUnder(r, T)) =>
                        check'.outcome = InvalidSignatureOrTimestamp]_vars

\* C11 witness: instance 1 is registered with "k"; its request signed with "q"
\* and stamped with the server's now was rejected for its signature
C11_Witness ==
    /\ IsRejected /\ check.outcome = InvalidSignatureOrTimestamp
    /\ InstanceOf(check.req) = 1 /\ 1 \in DOMAIN db_agents
    /\ db_agents[1].agent_api_key = <<107>> /\ check.secret = <<107>>
    /\ TimestampNow(check.req, check.now)
    /\ SignedUnder(check.req, <<113>>)

\* this step is part of a run of authenticate_agent: the arrival of a request
\* or the return of its `await request.body()`
GateStep ==
    \/ check'.pc # check.pc \/ check'.req # check.req
    \/ peer'.pc # peer.pc \/ peer'.req # peer.req

\* C12: every step of a run of authenticate_agent, whether the run goes on,
\* authenticates or rejects, leaves the mapping from instance identity to
\* secret as it was; a step that changes the mapping is a registration, which
\* sets the secret of one instance to the agent_api_key it stores in db_agents
\* and leaves every check as it was.
C12_GateReadsRegistry ==
    /\ [][GateStep => AGENT_API_KEYS' = AGENT_API_KEYS]_vars
    /\ [][(AGENT_API_KEYS' # AGENT_API_KEYS) =>
             /\ check' = check /\ peer' = peer
             /\ \E u \in Uuids :
                    /\ u \in DOMAIN db_agents'
                    /\ AGENT_API_KEYS' = Put(AGENT_API_KEYS, UuidStr(u),
                                             db_agents'[u].agent_api_key)]_vars

\* C12 witness: a check of a registered instance ended in a rejection for its
\* signature or timestamp, and the registry still holds the secret it read
C12_Witness ==
    /\ IsRejected /\ check.outcome = InvalidSignatureOrTimestamp
    /\ check.req.x_instance_id \in DOMAIN AGENT_API_KEYS
    /\ AGENT_API_KEYS[check.req.x_instance_id] = check.secret

PeerRejected == peer.pc = "done" /\ peer.outcome.kind = "HTTPException"

\* what a client sees of a rejection: status, detail text, response headers
Visible(o) == <<o.status_code, o.detail, o.headers>>

\* the check c was rejected by the secret lookup, before the body was read
FailedAtLookup(c) == ~("read_body" \in c.ran)

\* the name of the check that failed in a rejected run c of the gate
FailedCheck(c) ==
    IF FailedAtLookup(c) THEN "identity"
    ELSE IF c.log[1] = "Invalid timestamp format" THEN "timestamp malformed"
    ELSE IF c.log[1] = "Timestamp validation failed" THEN "timestamp stale"
    ELSE "signature"

\* C13 as stated: two rejected requests get the same status, detail text and
\* response headers, whichever check failed for each.
C13_SameResponse ==
    (IsRejected /\ PeerRejected) => Visible(check.outcome) = Visible(peer.outcome)

\* C13 amended: two requests rejected after the secret was found (timestamp
\* no integer, timestamp outside the window, signature wrong) get the same
\* response, 401 "Invalid signature or timestamp." with WWW-Authenticate:
\* Signature, so the response does not tell which of these checks failed; a
\* request rejected because the identity has no secret gets another response
\* (another detail text, no WWW-Authenticate header), so the response does
\* tell an unknown identity from the other failures.
C13_SameResponseAfterLookup ==
    (IsRejected /\ PeerRejected) =>
        /\ (Visible(check.outcome) = Visible(peer.outcome))
               <=> (FailedAtLookup(check) <=> FailedAtLookup(peer))
        /\ ~FailedAtLookup(check) =>
               Visible(check.outcome) = Visible(InvalidSignatureOrTimestamp)
        /\ ~FailedAtLookup(peer) =>
               Visible(peer.outcome) = Visible(InvalidSignatureOrTimestamp)

\* C13 witness: one request was rejected for a timestamp that is no integer,
\* the other for its signature, with the same response
C13_Witness ==
    /\ IsRejected /\ PeerRejected
    /\ FailedCheck(check) = "timestamp malformed"
    /\ FailedCheck(peer) = "signature"
    /\ Visible(check.outcome) = Visible(peer.outcome)

\* a run c of the gate ended as Authenticated or as Rejected
EndedInVerdict(c) ==
    c.pc = "done" /\ c.outcome.kind \in {"return", "HTTPException"}

\* the step from c to d of one run of the gate, beside a run e that becomes f:
\* d is what the code makes of the request of d, the registry read at the
\* arrival, the secret c carries and the clock; the run ends in a verdict; an
\* identity not yet in the registry is UnknownInstance and any other is
\* checked against the secret the registry holds; the other run stays as it is
IndependentStep(c, d, e, f) ==
    /\ (c.pc \in {"idle", "done"} /\ d.pc \in {"body", "done"} /\ d # c) =>
           /\ d = AuthenticateLookup(d.req, AGENT_API_KEYS, FALSE)
           /\ IF d.req.x_instance_id \in DOMAIN AGENT_API_KEYS
                  /\ AGENT_API_KEYS[d.req.x_instance_id] # <<>>
              THEN d.pc = "body" /\ d.secret = AGENT_API_KEYS[d.req.x_instance_id]
              ELSE d.pc = "done" /\ d.outcome = UnknownInstance
           /\ f = e
    /\ (c.pc = "body" /\ d.pc = "done") =>
           /\ d = AuthenticateVerify(c, clock)
           /\ f = e
    /\ (d.pc = "done") => EndedInVerdict(d)

\* C14: under every interleaving of two checks and registrations, each check
\* ends as Authenticated or Rejected, never in an error; its verdict is
\* determined by its own request, the clock and the registry content it read;
\* a check of an identity being registered ends as UnknownInstance or is a
\* check against the registered secret; no check changes the other.
C14_ChecksIndependent ==
    [][/\ IndependentStep(check, check', peer, peer')
       /\ IndependentStep(peer, peer', check, check')]_vars

\* C14 without its "never in an error": what remains holds of the model
C14_IndependentButForErrors ==
    [][/\ IndependentStep(check, check', peer, peer')
           \/ (check'.pc = "done" /\ ~EndedInVerdict(check'))
       /\ IndependentStep(peer, peer', check, check')
           \/ (peer'.pc = "done" /\ ~EndedInVerdict(peer'))]_vars

\* the check that ended in this step authenticated instance u
AuthenticatedAs(u) ==
    /\ VerdictStep /\ check'.outcome.kind = "return"
    /\ check'.outcome.instance_id = UuidStr(u)

\* every stored batch is non-empty and is, with each of its metrics, of the
\* instance it is stored under
BatchesWellFormed ==
    \A I \in DOMAIN db_metrics : \A n \in DOMAIN db_metrics[I] :
        LET batch == db_metrics[I][n]
        IN  /\ batch.metrics # <<>>
            /\ batch.instance_id = I
            /\ \A m \in DOMAIN batch.metrics : batch.metrics[m].instance_id = I

\* a step that adds a batch under I ends a check authenticated as I, and the
\* batch is the payload of the request of that check
BatchesFromAuthenticated ==
    \A I \in Uuids :
        (I \in DOMAIN db_metrics' /\ I \in DOMAIN db_metrics
             /\ db_metrics'[I] # db_metrics[I]) =>
            /\ AuthenticatedAs(I)
            /\ check'.req.path = MetricsPath
            /\ db_metrics'[I] = Append(db_metrics[I],
                   [received_at |-> "now", instance_id |-> I,
                    metrics |-> ParseMetricsBatchWrapper(check'.req.body).metrics])

\* a step that sets last_heartbeat_at of agent u to an instant ends a check
\* authenticated as u, of a heartbeat whose payload names u; no other agent's
\* last_heartbeat_at is set in that step
HeartbeatOfAuthenticated ==
    \A u \in Uuids :
        (u \in DOMAIN db_agents' /\ u \in DOMAIN db_agents
             /\ db_agents'[u].last_heartbeat_at # db_agents[u].last_heartbeat_at
             /\ db_agents'[u].last_heartbeat_at # 0 - 1) =>
            /\ AuthenticatedAs(u)
            /\ check'.req.path = HeartbeatPath
            /\ ParseHeartbeatPayload(check'.req.body).instance_id = u
            /\ db_agents'[u].last_heartbeat_at = clock
            /\ \A w \in DOMAIN db_agents \ {u} : db_agents'[w] = db_agents[w]

\* C16: in every reachable state every batch stored under I is non-empty and
\* holds only metrics whose instance_id is I; a batch is stored under I only
\* by a request authenticated as I; a heartbeat sets last_heartbeat_at only of
\* the agent that was authenticated and that the payload names.
C16_StoredUnderAuthenticated ==
    /\ []BatchesWellFormed
    /\ [][BatchesFromAuthenticated /\ HeartbeatOfAuthenticated]_vars

\* C16 witness: instance 1 has a stored batch and a heartbeat on record, and
\* instance 2 is registered without either
C16_Witness ==
    /\ 1 \in DOMAIN db_metrics /\ db_metrics[1] # <<>>
    /\ 1 \in DOMAIN db_agents /\ db_agents[1].last_heartbeat_at # 0 - 1
    /\ 2 \in DOMAIN db_agents /\ db_agents[2].last_heartbeat_at = 0 - 1
    /\ db_metrics[2] = <<>>

\* C17: when the gate authenticates, the raw_body_bytes of its result are the
\* bytes of the request body, byte for byte, and they are the bytes the
\* accepted signature was computed over: the signature header is the HMAC,
\* under the secret the gate read, of the message built from those bytes.
C17_VerifiedBytesReturned ==
    IsAuthenticated =>
        /\ check.outcome.raw_body_bytes = check.req.body
        /\ check.req.x_request_signature =
               Sign(check.secret, check.req.x_request_timestamp, check.req.method,
                    check.req.path, check.outcome.raw_body_bytes)

\* C17 witness: a request with a body of one byte was authenticated
C17_Witness ==
    IsAuthenticated /\ Len(check.req.body) = 1 /\ "hmac" \in check.ran

\* the secret the registry holds for the instance of the check in flight
\* (empty if it holds none)
StoredSecret ==
    IF check.req.x_instance_id \in DOMAIN AGENT_API_KEYS
    THEN AGENT_API_KEYS[check.req.x_instance_id]
    ELSE <<>>

\* C18 as stated: whatever the check went through, a request is authenticated
\* only if it is signed with the key the registry holds at that moment: after
\* a re-registration with K2, a request signed only with K1 is not
\* authenticated, not even by a check that read K1 before the re-registration
\* and was reading the body when it ran.
C18_NoOldKeyAfterReplacement ==
    [][(VerdictStep /\ check'.outcome.kind = "return") =>
          SignedUnder(check.req, StoredSecret)]_vars

\* C18 amended: once a re-registration of A with a new key K2 has completed,
\* every check that looks the secret up afterwards reads K2 and does not
\* authenticate a request signed only with K1; a check that had read K1 before
\* the re-registration and was suspended reading the body still verifies
\* against K1 when it resumes, and authenticates the request signed with K1
\* if its timestamp is within the window.
C18_OldKeyOnlyIfSuspended ==
    /\ [][(LookupOfArrival /\ check'.pc = "body") =>
             check'.secret = AGENT_API_KEYS[check'.req.x_instance_id]]_vars
    /\ [][(VerdictStep /\ check'.outcome.kind = "return"
              /\ ~SignedUnder(check.req, StoredSecret)) =>
             /\ check.secret # StoredSecret
             /\ SignedUnder(check.req, check.secret)]_vars
    /\ [][(VerdictStep /\ check.secret # StoredSecret
              /\ SignedUnder(check.req, check.secret)
              /\ ParsesWithinWindow(check.req.x_request_timestamp, clock)) =>
             check'.outcome = Authenticated(check.req.x_instance_id,
                                            check.req.body)]_vars

\* C18 witness: the registry holds "q" for instance 1, and a check that had
\* read "k" authenticated a request signed with "k" and not with "q"
C18_Witness ==
    /\ IsAuthenticated /\ check.secret = <<107>>
    /\ StoredSecret = <<113>>
    /\ SignedUnder(check.req, <<107>>) /\ ~SignedUnder(check.req, <<113>>)

\* C19: in every reachable state the keys of AGENT_API_KEYS are the string
\* forms of the keys of db_agents, each stored secret is the agent_api_key of
\* the StoredAgent of that instance, and every registered instance has a list
\* in db_metrics; no heartbeat that passed the gate and the identity
\* cross-check is answered 404 "Agent not found for heartbeat."
C19_StoresAgree ==
    /\ DOMAIN AGENT_API_KEYS = {UuidStr(u) : u \in DOMAIN db_agents}
    /\ \A u \in DOMAIN db_agents :
           /\ db_agents[u].instance_id = u
           /\ AGENT_API_KEYS[UuidStr(u)] = db_agents[u].agent_api_key
           /\ u \in DOMAIN db_metrics
    /\ response.check.status_code # 404
    /\ response.check.detail # "Agent not found for heartbeat."

\* C19 witness: both instances are registered, instance 1 was registered
\* again with another key, and its heartbeat was acknowledged
C19_Witness ==
    /\ DOMAIN db_agents = {1, 2}
    /\ IsAuthenticated /\ check.req.path = HeartbeatPath
    /\ response.check = Response(200, "Heartbeat acknowledged")
    /\ db_agents[1].last_heartbeat_at = 0 - 1
    /\ AGENT_API_KEYS[UuidStr(1)] = <<113>>

\* this step ends the handling of the request of the check: at the lookup, or
\* after the body was read
RequestEnds == VerdictStep \/ CheckEnds

\* the request whose handling ended was refused: by the gate (with either 401
\* or for a missing header), or by a handler for an empty batch or for an
\* instance_id in the payload that is not the authenticated one
Refused ==
    \/ check'.outcome.kind \in {"HTTPException", "RequestValidationError"}
    \/ /\ check'.outcome.kind = "return"
       /\ response'.check.status_code = 400

\* C20: a step that ends a protected request with a rejection of the gate, a
\* failed identity cross-check or the refusal of an empty batch leaves
\* db_agents, db_metrics and the key registry as they were.
C20_RefusedLeavesStores ==
    [][(RequestEnds /\ Refused) =>
          /\ db_agents' = db_agents
          /\ db_metrics' = db_metrics
          /\ AGENT_API_KEYS' = AGENT_API_KEYS]_vars

\* C20 witness: a batch of instance 1 holding a metric of instance 2 was
\* refused after instance 1 was authenticated, and no batch is stored
C20_Witness ==
    /\ IsAuthenticated /\ check.req.path = MetricsPath
    /\ check.req.body = <<97, 98>>
    /\ response.check = Response(400, "Mismatch in instance_id in metrics payload")
    /\ db_metrics[1] = <<>>

====
